---------------------------- MODULE Spec2Model ----------------------------
(***************************************************************************)
(* Secret detectors of the trufflehog fork: Bitcoin WIF, Coze token,       *)
(* Baidu AK/SK pair and Ethereum private key.                              *)
(*                                                                         *)
(* Go strings are TLA+ strings; s[i:j] is SubSeq(s, i+1, j), a character   *)
(* is a string of length one.  A big.Int is the sequence of its base-16    *)
(* digits, most significant first, without leading zeros.                  *)
(***************************************************************************)
EXTENDS Integers, Sequences, FiniteSets, TLC

VARIABLES
    op,        \* the function under execution
    arg,       \* its string argument: a key, a WIF, or the data buffer
    ret,       \* a pure function's return value: <<>> before the call, <<b>> after
    family,    \* the detector whose FromData runs
    verify,    \* FromData's verify parameter
    pc,        \* position inside the function
    ctx,       \* FromData's context: "nil", "live" or "cancelled"
    cands,     \* FromData: the candidates the loop ranges over
    idx,       \* FromData: number of loop iterations done
    results,   \* FromData: the results slice
    last,      \* what the verifier's call of the last iteration met
    calls      \* number of network calls made so far

vars == <<op, arg, ret, family, verify, ctx, pc, cands, idx, results, last, calls>>

(***************************************************************************)
(* Characters and strings                                                  *)
(***************************************************************************)
At(s, i) == SubSeq(s, i, i)

CharsOf(s) == {At(s, i) : i \in 1..Len(s)}

IndexIn(c, s) == CHOOSE i \in 1..Len(s) : At(s, i) = c

DigitChars == CharsOf("0123456789")
UpperChars == CharsOf("ABCDEFGHIJKLMNOPQRSTUVWXYZ")
LowerChars == CharsOf("abcdefghijklmnopqrstuvwxyz")
LowerHexChars == CharsOf("0123456789abcdef")
HexChars == CharsOf("0123456789abcdefABCDEF")

\* strings.ToLower on one ASCII character
LowerOf == [c \in UpperChars |->
              At("abcdefghijklmnopqrstuvwxyz", IndexIn(c, "ABCDEFGHIJKLMNOPQRSTUVWXYZ"))]

ToLowerChar(c) == IF c \in UpperChars THEN LowerOf[c] ELSE c

RECURSIVE ToLowerFrom(_, _)
ToLowerFrom(s, i) ==
    IF i > Len(s) THEN "" ELSE ToLowerChar(At(s, i)) \o ToLowerFrom(s, i + 1)

ToLower(s) == ToLowerFrom(s, 1)

HasPrefix(s, p) == Len(s) >= Len(p) /\ SubSeq(s, 1, Len(p)) = p

TrimPrefix(s, p) == IF HasPrefix(s, p) THEN SubSeq(s, Len(p) + 1, Len(s)) ELSE s

RECURSIVE Repeat(_, _)
Repeat(s, n) == IF n <= 0 THEN "" ELSE s \o Repeat(s, n - 1)

(***************************************************************************)
(* math/big, as far as isValidEthPrivateKey uses it                        *)
(***************************************************************************)
HexValue == [c \in HexChars |-> (IndexIn(ToLowerChar(c), "0123456789abcdef") - 1)]

RECURSIVE DigitsFrom(_, _)
DigitsFrom(s, i) ==
    IF i > Len(s) THEN <<>> ELSE <<HexValue[At(s, i)]>> \o DigitsFrom(s, i + 1)

RECURSIVE Norm(_)
Norm(d) == IF d # <<>> /\ Head(d) = 0 THEN Norm(Tail(d)) ELSE d

\* new(big.Int).SetString(s, 16) for a string of hexadecimal digits
SetString16(s) == Norm(DigitsFrom(s, 1))

RECURSIVE CmpDigits(_, _, _)
CmpDigits(x, y, i) ==
    IF i > Len(x) THEN 0
    ELSE IF x[i] < y[i] THEN -1
    ELSE IF x[i] > y[i] THEN 1
    ELSE CmpDigits(x, y, i + 1)

\* x.Cmp(y) for non-negative x, y
Cmp(x, y) ==
    IF Len(x) < Len(y) THEN -1
    ELSE IF Len(x) > Len(y) THEN 1
    ELSE CmpDigits(x, y, 1)

secp256k1N == SetString16("FFFFFFFFFFFFFFFFFFFFFFFFFFFFFFFEBAAEDCE6AF48A03BBFD25E8CD0364141")

(***************************************************************************)
(* ethereumprivatekey: the validity filter                                 *)
(***************************************************************************)
KeyHexLen == 64

MaxPatternLen == 8

commonTestKeys ==
    { "0123456789abcdef0123456789abcdef0123456789abcdef0123456789abcdef",
      "1111111111111111111111111111111111111111111111111111111111111111",
      "aaaaaaaaaaaaaaaaaaaaaaaaaaaaaaaaaaaaaaaaaaaaaaaaaaaaaaaaaaaaaaaa",
      "deadbeefdeadbeefdeadbeefdeadbeefdeadbeefdeadbeefdeadbeefdeadbeef" }

\* the inner loop of isSimplePattern: every block of patternLen characters from
\* offset i on equals the first one
RECURSIVE IsRepeatingFrom(_, _, _)
IsRepeatingFrom(hexKey, patternLen, i) ==
    IF i > Len(hexKey) THEN TRUE
    ELSE IF SubSeq(hexKey, i, i + patternLen - 1) # SubSeq(hexKey, 1, patternLen) THEN FALSE
    ELSE IsRepeatingFrom(hexKey, patternLen, i + patternLen)

isSimplePatternOff(hexKey) ==
    \/ \E patternLen \in 1..(MaxPatternLen - 1) :
          /\ Len(hexKey) % patternLen = 0
          /\ IsRepeatingFrom(hexKey, patternLen, patternLen + 1)
          /\ patternLen < 16
    \/ ToLower(hexKey) \in commonTestKeys

isSimplePattern(hexKey) ==
    \/ \E patternLen \in 1..MaxPatternLen :
          /\ Len(hexKey) % patternLen = 0
          /\ IsRepeatingFrom(hexKey, patternLen, patternLen + 1)
          /\ patternLen < 16
    \/ ToLower(hexKey) \in commonTestKeys

\* hex.DecodeString(s) returns no error
HexDecodes(s) == Len(s) % 2 = 0 /\ \A i \in 1..Len(s) : At(s, i) \in HexChars

isValidEthPrivateKey(k) ==
    LET hexKey == TrimPrefix(ToLower(k), "0x") IN
    IF Len(hexKey) # KeyHexLen THEN FALSE
    ELSE IF ~HexDecodes(hexKey) THEN FALSE
    ELSE IF hexKey = Repeat("0", 64) THEN FALSE
    ELSE IF ToLower(hexKey) = Repeat("f", 64) THEN FALSE
    ELSE IF isSimplePattern(hexKey) THEN FALSE
    ELSE LET keyInt == SetString16(hexKey) IN
         IF Cmp(keyInt, <<>>) <= 0 THEN FALSE
         ELSE IF Cmp(keyInt, secp256k1N) >= 0 THEN FALSE
         ELSE TRUE


(***************************************************************************)
(* bitcoinwif: the validity filter                                         *)
(***************************************************************************)
isValidWIFAnyPrefix(wif) ==
    \/ Len(wif) = 51 /\ At(wif, 1) \in {"5", "K", "L"}
    \/ Len(wif) = 52 /\ At(wif, 1) \in {"K", "L"}

isValidWIF(wif) ==
    IF Len(wif) = 51 /\ At(wif, 1) = "5" THEN TRUE
    ELSE IF Len(wif) = 52 /\ (At(wif, 1) = "K" \/ At(wif, 1) = "L") THEN TRUE
    ELSE FALSE

(***************************************************************************)
(* go-re2: FindAllStringSubmatch for the five compiled patterns.  A match  *)
(* is tried at every position from the left; the search resumes after the  *)
(* end of a match, so matches do not overlap.                              *)
(***************************************************************************)
WordChars == DigitChars \cup UpperChars \cup LowerChars \cup {"_"}

\* [1-9A-HJ-NP-Za-km-z]
Base58Chars == CharsOf("123456789ABCDEFGHJKLMNPQRSTUVWXYZabcdefghijkmnopqrstuvwxyz")

\* [a-z0-9]
LowerAlnumChars == LowerChars \cup DigitChars

\* [A-Za-z0-9]
AlnumChars == UpperChars \cup LowerChars \cup DigitChars

\* \s
SpaceChars == {" ", "\t", "\n", "\f", "\r"}

\* ["'\s:=]
EthSepChars == {"\"", "'", ":", "="} \cup SpaceChars

\* ["']
QuoteChars == {"\"", "'"}

\* [\"';\s]
BaiduTailChars == {"\"", "'", ";"} \cup SpaceChars

IsWordAt(s, i) == i >= 1 /\ i <= Len(s) /\ At(s, i) \in WordChars

\* \b between s[i-1] and s[i] (1-based: before the i-th character)
WordBoundary(s, i) == IsWordAt(s, i - 1) # IsWordAt(s, i)

\* the n characters from position i on exist and belong to class
AllIn(s, i, n, class) ==
    /\ i + n - 1 <= Len(s)
    /\ \A j \in i..(i + n - 1) : At(s, j) \in class

\* number of consecutive characters of class from position i on
RECURSIVE RunLen(_, _, _)
RunLen(s, i, class) ==
    IF i <= Len(s) /\ At(s, i) \in class THEN 1 + RunLen(s, i + 1, class) ELSE 0

\* the literal lit (lower case) at position i, compared case-insensitively
MatchCI(s, i, lit) ==
    /\ i + Len(lit) - 1 <= Len(s)
    /\ ToLower(SubSeq(s, i, i + Len(lit) - 1)) = lit

NoMatch == [len |-> 0, sub |-> ""]

\* \b([5][1-9A-HJ-NP-Za-km-z]{50}|[LK][1-9A-HJ-NP-Za-km-z]{51})\b
mainnetWIFPat(s, i) ==
    IF i > Len(s) \/ ~WordBoundary(s, i) THEN NoMatch
    ELSE IF At(s, i) = "5" /\ AllIn(s, i + 1, 50, Base58Chars) /\ WordBoundary(s, i + 51)
         THEN [len |-> 51, sub |-> SubSeq(s, i, i + 50)]
    ELSE IF At(s, i) \in {"L", "K"} /\ AllIn(s, i + 1, 51, Base58Chars)
                /\ WordBoundary(s, i + 52)
         THEN [len |-> 52, sub |-> SubSeq(s, i, i + 51)]
    ELSE NoMatch

\* \b((?:pat|sat)_[A-Za-z0-9]{64})\b
cozeKeyPat(s, i) ==
    IF /\ i + 3 <= Len(s)
       /\ WordBoundary(s, i)
       /\ SubSeq(s, i, i + 3) \in {"pat_", "sat_"}
       /\ AllIn(s, i + 4, 64, AlnumChars)
       /\ WordBoundary(s, i + 68)
    THEN [len |-> 68, sub |-> SubSeq(s, i, i + 67)]
    ELSE NoMatch

\* \b([a-z0-9]{32})\b
baiduKeyPat(s, i) ==
    IF /\ i <= Len(s)
       /\ WordBoundary(s, i)
       /\ AllIn(s, i, 32, LowerAlnumChars)
       /\ WordBoundary(s, i + 32)
    THEN [len |-> 32, sub |-> SubSeq(s, i, i + 31)]
    ELSE NoMatch

\* \b([a-z0-9]{32})[\"';\s]*
baiduIdPat(s, i) ==
    IF /\ i <= Len(s)
       /\ WordBoundary(s, i)
       /\ AllIn(s, i, 32, LowerAlnumChars)
    THEN [len |-> 32 + RunLen(s, i + 32, BaiduTailChars), sub |-> SubSeq(s, i, i + 31)]
    ELSE NoMatch

\* (?i)\b(0x[a-f0-9]{64})\b
ethPrivKeyWithPrefix(s, i) ==
    IF /\ i + 1 <= Len(s)
       /\ WordBoundary(s, i)
       /\ At(s, i) = "0"
       /\ At(s, i + 1) \in {"x", "X"}
       /\ AllIn(s, i + 2, 64, HexChars)
       /\ WordBoundary(s, i + 66)
    THEN [len |-> 66, sub |-> SubSeq(s, i, i + 65)]
    ELSE NoMatch

\* the alternatives of the key name, in the pattern's order: head [_\-]? tail
EthKeyNames ==
    << <<"private", "key">>, <<"secret", "key">>,
       <<"eth", "private">>, <<"eth", "secret">>,
       <<"wallet", "key">>, <<"wallet", "secret">>,
       <<"signing", "key">>,
       <<"account", "key">>, <<"account", "secret">>,
       <<"priv", "key">> >>

\* position after head [_\-]? tail matched at i, or 0
KeyNameEnd(s, i, name) ==
    IF ~MatchCI(s, i, name[1]) THEN 0
    ELSE LET j == i + Len(name[1])
             k == IF j <= Len(s) /\ At(s, j) \in {"_", "-"} THEN j + 1 ELSE j
         IN  IF MatchCI(s, k, name[2]) THEN k + Len(name[2]) ELSE 0

\* ["'\s:=]+["']?([a-f0-9]{64})["']?\b from position j on: the separators and
\* the optional quote share the one run of separator characters before the
\* digits; the closing quote is taken when a word boundary follows it, and
\* left out otherwise
EthValueAt(s, j) ==
    LET n == RunLen(s, j, EthSepChars)
        h == j + n
        e == h + 64
    IN  IF j = 0 \/ n < 1 \/ ~AllIn(s, h, 64, HexChars) THEN NoMatch
        ELSE IF e <= Len(s) /\ At(s, e) \in QuoteChars /\ WordBoundary(s, e + 1)
             THEN [len |-> e + 1 - j, sub |-> SubSeq(s, h, e - 1)]
        ELSE IF WordBoundary(s, e)
             THEN [len |-> e - j, sub |-> SubSeq(s, h, e - 1)]
        ELSE NoMatch

RECURSIVE EthContextAlt(_, _, _)
EthContextAlt(s, i, a) ==
    IF a > Len(EthKeyNames) THEN NoMatch
    ELSE LET j == KeyNameEnd(s, i, EthKeyNames[a])
             v == EthValueAt(s, j)
         IN  IF v.len > 0 THEN [len |-> (j - i) + v.len, sub |-> v.sub]
             ELSE EthContextAlt(s, i, a + 1)

\* (?i)(?:private[_\-]?key|...|priv[_\-]?key)["'\s:=]+["']?([a-f0-9]{64})["']?\b
ethPrivKeyWithContext(s, i) ==
    IF i <= Len(s) /\ ToLowerChar(At(s, i)) \in {"p", "s", "e", "w", "a"}
    THEN EthContextAlt(s, i, 1)
    ELSE NoMatch

MatchAt(pat, s, i) ==
    CASE pat = "mainnetWIFPat" -> mainnetWIFPat(s, i)
      [] pat = "cozeKeyPat" -> cozeKeyPat(s, i)
      [] pat = "baiduKeyPat" -> baiduKeyPat(s, i)
      [] pat = "baiduIdPat" -> baiduIdPat(s, i)
      [] pat = "ethPrivKeyWithPrefix" -> ethPrivKeyWithPrefix(s, i)
      [] pat = "ethPrivKeyWithContext" -> ethPrivKeyWithContext(s, i)

Min(S) == CHOOSE x \in S : \A y \in S : x <= y

\* the matches from position i on: [pos, sub], sub being match[1]
RECURSIVE FindAllFrom(_, _, _)
FindAllFrom(pat, s, i) ==
    LET starts == {j \in i..Len(s) : MatchAt(pat, s, j).len > 0} IN
    IF starts = {} THEN <<>>
    ELSE LET j == Min(starts)
             m == MatchAt(pat, s, j)
         IN  <<[pos |-> j, sub |-> m.sub]>> \o FindAllFrom(pat, s, j + m.len)

FindAllStringSubmatch(pat, s) == FindAllFrom(pat, s, 1)

\* strings.TrimSpace
RECURSIVE TrimLeft(_)
TrimLeft(s) ==
    IF Len(s) > 0 /\ At(s, 1) \in SpaceChars THEN TrimLeft(SubSeq(s, 2, Len(s))) ELSE s

RECURSIVE TrimRight(_)
TrimRight(s) ==
    IF Len(s) > 0 /\ At(s, Len(s)) \in SpaceChars
    THEN TrimRight(SubSeq(s, 1, Len(s) - 1)) ELSE s

TrimSpace(s) == TrimRight(TrimLeft(s))

\* strings.Contains
Contains(s, sub) ==
    \E i \in 1..(Len(s) - Len(sub) + 1) : SubSeq(s, i, i + Len(sub) - 1) = sub

(***************************************************************************)
(* Inputs of the two validity filters                                      *)
(***************************************************************************)
validKeyNoPrefix == "4c0883a69102937d6231471b5dbb6204fe512961708279f1d7b1b3b9e1a1e3d4"
validKey2NoPrefix == "ac0974bec39a17e36ba4a6b4d238ff944bacb478cbed5efcae784d7bf4f2ff80"
OrderHex == "fffffffffffffffffffffffffffffffebaaedce6af48a03bbfd25e8cd0364141"
OrderMinusOneHex == "fffffffffffffffffffffffffffffffebaaedce6af48a03bbfd25e8cd0364140"
OrderPlusOneHex == "fffffffffffffffffffffffffffffffebaaedce6af48a03bbfd25e8cd0364142"

EthBaseKeys ==
    { validKeyNoPrefix, validKey2NoPrefix,
      OrderHex, OrderMinusOneHex, OrderPlusOneHex,
      Repeat("0", 64), Repeat("f", 64), Repeat("1", 64), Repeat("a", 64),
      Repeat("0", 63) \o "1",
      Repeat("ab", 32), Repeat("1234", 16), Repeat("12345678", 8),
      Repeat("deadbeef", 8), Repeat("0123456789abcdef", 4),
      Repeat("0123456789abcdee", 4),
      Repeat("4c0883a69102937d6231471b5dbb6204", 2) }

EthUpperKeys ==
    { "4C0883A69102937D6231471B5DBB6204FE512961708279F1D7B1B3B9E1A1E3D4",
      "FFFFFFFFFFFFFFFFFFFFFFFFFFFFFFFEBAAEDCE6AF48A03BBFD25E8CD0364140",
      "FFFFFFFFFFFFFFFFFFFFFFFFFFFFFFFEBAAEDCE6AF48A03BBFD25E8CD0364141",
      "FFFFFFFFFFFFFFFFFFFFFFFFFFFFFFFFFFFFFFFFFFFFFFFFFFFFFFFFFFFFFFFF",
      "DEADBEEFDEADBEEFDEADBEEFDEADBEEFDEADBEEFDEADBEEFDEADBEEFDEADBEEF",
      "0123456789ABCDEF0123456789abcdef0123456789ABCDEF0123456789abcdef" }

MutationChars == {"0", "1", "e", "f", "F", "g"}

\* s with its i-th character replaced by c
ReplaceAt(s, i, c) == SubSeq(s, 1, i - 1) \o c \o SubSeq(s, i + 1, Len(s))

EthKeyInputs ==
    { ReplaceAt(b, i, c) : b \in EthBaseKeys, i \in 1..64, c \in MutationChars }
    \cup { p \o b : p \in {"", "0x", "0X", "0x0x", "x0"}, b \in EthBaseKeys }
    \cup { p \o b : p \in {"", "0x", "0X"}, b \in EthUpperKeys }
    \cup { p \o b \o c : p \in {"", "0x"}, b \in EthBaseKeys, c \in {"0", "f"} }
    \cup { "", "0x", "0x4c0883a69102937d6231471b5dbb6204fe5129617" }

validUncompressedWIF == "5HueCGU8rMjxEXxiPuD5BDku4MkFqeZyd4dZ1jvhTVqvbTLvyTJ"
validCompressedWIFL == "L4rK1yDtCWekvXuE6oXD9jCYfFNV2cWRpVuPLBcCU2z8TrisoyY1"
validCompressedWIFK == "KwDiBf89QgGbjEhKnhXJuH7LrciVrZi3qYjgd9M7rFU73sVHnoWn"
testnetWIF == "cQhxRVxkBpTrwUHZmnv5M7ZvPcgp4cZ8csnenAfFLyoFgEVvN8yy"

WIFFiller == "HueCGU8rMjxEXxiPuD5BDku4MkFqeZyd4dZ1jvhTVqvbTLvyTJ9a"

WIFInputs ==
    { f \o SubSeq(WIFFiller, 1, n - 1) :
        f \in {"5", "K", "L", "c", "1", "9", "k", "l", "M"},
        n \in {1, 12, 50, 51, 52, 53} }
    \cup { validUncompressedWIF, validCompressedWIFL, validCompressedWIFK,
           testnetWIF, "invalid_wif_key", "" }

(***************************************************************************)
(* The validity filters as operations: the argument is drawn at            *)
(* construction, the call returns the verdict.                             *)
(***************************************************************************)
NoScan ==
    /\ family = "none"
    /\ verify = FALSE
    /\ ctx = "live"
    /\ last = "none"
    /\ cands = <<>>
    /\ idx = 0
    /\ results = <<>>
    /\ calls = 0

InitEthKey ==
    /\ op = "isValidEthPrivateKey"
    /\ arg \in EthKeyInputs
    /\ ret = <<>>
    /\ pc = "call"
    /\ NoScan

CallIsValidEthPrivateKey ==
    /\ op = "isValidEthPrivateKey"
    /\ pc = "call"
    /\ ret' = <<isValidEthPrivateKey(arg)>>
    /\ pc' = "done"
    /\ UNCHANGED <<op, arg, family, verify, ctx, cands, idx, results, last, calls>>

SpecEthKey == InitEthKey /\ [][CallIsValidEthPrivateKey]_vars

InitWIF ==
    /\ op = "isValidWIF"
    /\ arg \in WIFInputs
    /\ ret = <<>>
    /\ pc = "call"
    /\ NoScan

CallIsValidWIF ==
    /\ op = "isValidWIF"
    /\ pc = "call"
    /\ ret' = <<isValidWIF(arg)>>
    /\ pc' = "done"
    /\ UNCHANGED <<op, arg, family, verify, ctx, cands, idx, results, last, calls>>

SpecWIF == InitWIF /\ [][CallIsValidWIF]_vars

(***************************************************************************)
(* detectors.Result and the verifiers                                      *)
(***************************************************************************)
EmptyMap == [k \in {} |-> ""]

NewResult(type, raw) ==
    [ DetectorType |-> type, Raw |-> raw, RawV2 |-> "", Redacted |-> "",
      Verified |-> FALSE, VerificationError |-> <<>>,
      ExtraData |-> EmptyMap, AnalysisInfo |-> EmptyMap ]

\* Result.SetVerificationError(err, secrets...): err is <<>> (nil) or <<text>>
SetVerificationError(r, err) ==
    IF err # <<>> THEN [r EXCEPT !.VerificationError = err] ELSE r

\* What a verifier's call meets.  kind is "none" (no call), "reqerr" (the
\* request could not be built), "transport" (no response: connection, DNS,
\* timeout, cancelled context), "response" (an HTTP response or, for the BCC
\* client, an answer of the service; err is the service's error, "" for none).
Met(kind, status, decodes, code, uid, err) ==
    [ kind |-> kind, status |-> status, decodes |-> decodes, code |-> code,
      user_id |-> uid,
      user_name |-> IF uid = "" THEN "" ELSE "name-" \o uid,
      nick_name |-> IF uid = "" THEN "" ELSE "nick-" \o uid,
      err |-> err ]

NoCall == Met("none", 0, FALSE, 0, "", "")

TransportFailures ==
    { Met("transport", 0, FALSE, 0, "", e) :
        e \in { "dial tcp: connect: connection refused",
                "context deadline exceeded" } }

CancelledFailure == Met("transport", 0, FALSE, 0, "", "context canceled")

HTTPStatuses == {200, 201, 401, 403, 500}

CozeResponses ==
    { Met("response", st, FALSE, 0, "", "") : st \in HTTPStatuses }
    \cup { Met("response", 200, TRUE, c, u, "") : c \in {0, 4100}, u \in {"", "7301"} }

\* what client.Do can meet, the request being bound to ctx
CozeCalls(c) ==
    CASE c = "nil" -> {Met("reqerr", 0, FALSE, 0, "", "net/http: nil Context")}
      [] c = "cancelled" -> {CancelledFailure}
      [] OTHER -> TransportFailures \cup CozeResponses

BaiduServiceErrors ==
    { "[Code: IamSignatureInvalid; Message: IamSignatureInvalid, cause: Could not find credential.; RequestId: e7afa78a]",
      "[Code: AccessDenied; Message: Access denied.; RequestId: 0c3e11aa]" }

\* what bccClient.ListZone() can meet; the call takes no context
BaiduCalls ==
    TransportFailures
    \cup { Met("response", 200, TRUE, 0, "", "") }
    \cup { Met("response", 403, TRUE, 0, "", e) : e \in BaiduServiceErrors }

\* verifyCozeToken: <<isVerified, userData, err>>
verifyCozeTokenLax(o) ==
    IF o.kind = "reqerr" THEN <<FALSE, <<>>, <<>>>>
    ELSE IF o.kind = "transport" THEN <<FALSE, <<>>, <<o.err>>>>
    ELSE IF o.status = 200 THEN
        IF ~o.decodes THEN <<FALSE, <<>>, <<"json: cannot decode">>>>
        ELSE IF o.code = 0 THEN <<TRUE, <<o>>, <<>>>>
        ELSE <<FALSE, <<>>, <<>>>>
    ELSE IF o.status \in {401, 403} THEN <<FALSE, <<>>, <<>>>>
    ELSE <<FALSE, <<>>, <<"unexpected HTTP response status " \o ToString(o.status)>>>>

verifyCozeTokenSilent(o) ==
    IF o.kind = "reqerr" THEN <<FALSE, <<>>, <<>>>>
    ELSE IF o.kind = "transport" THEN <<FALSE, <<>>, <<o.err>>>>
    ELSE IF o.status = 200 THEN
        IF ~o.decodes THEN <<FALSE, <<>>, <<"json: cannot decode">>>>
        ELSE IF o.code = 0 /\ o.user_id # "" THEN <<TRUE, <<o>>, <<>>>>
        ELSE <<FALSE, <<>>, <<>>>>
    ELSE <<FALSE, <<>>, <<>>>>

\* verifyCozeToken with an unexpected status taken as a success with a warning
verifyCozeTokenWarn(o) ==
    IF o.kind = "reqerr" THEN <<FALSE, <<>>, <<>>>>
    ELSE IF o.kind = "transport" THEN <<FALSE, <<>>, <<o.err>>>>
    ELSE IF o.status = 200 THEN
        IF ~o.decodes THEN <<FALSE, <<>>, <<"json: cannot decode">>>>
        ELSE IF o.code = 0 /\ o.user_id # "" THEN <<TRUE, <<o>>, <<>>>>
        ELSE <<FALSE, <<>>, <<>>>>
    ELSE IF o.status \in {401, 403} THEN <<FALSE, <<>>, <<>>>>
    ELSE <<TRUE, <<>>, <<"unexpected HTTP response status " \o ToString(o.status)>>>>

verifyCozeToken(o) ==
    IF o.kind = "reqerr" THEN <<FALSE, <<>>, <<>>>>
    ELSE IF o.kind = "transport" THEN <<FALSE, <<>>, <<o.err>>>>
    ELSE IF o.status = 200 THEN
        IF ~o.decodes THEN <<FALSE, <<>>, <<"json: cannot decode">>>>
        ELSE IF o.code = 0 /\ o.user_id # "" THEN <<TRUE, <<o>>, <<>>>>
        ELSE <<FALSE, <<>>, <<>>>>
    ELSE IF o.status \in {401, 403} THEN <<FALSE, <<>>, <<>>>>
    ELSE <<FALSE, <<>>, <<"unexpected HTTP response status " \o ToString(o.status)>>>>

\* verifyBaidu: <<isVerified, err>>; o.err is ListZone's error, "" for nil
verifyBaiduAnyError(o) ==
    IF o.err # "" THEN <<FALSE, <<o.err>>>> ELSE <<TRUE, <<>>>>

verifyBaidu(o) ==
    IF o.err # "" THEN
        IF Contains(o.err, "IamSignatureInvalid") THEN <<FALSE, <<>>>>
        ELSE <<TRUE, <<>>>>
    ELSE <<TRUE, <<>>>>

\* verifyBitcoinWIF answering that nothing was verified
verifyBitcoinWIFUnverified(wif) ==
    <<FALSE, EmptyMap, <<"verification not implemented">>>>

\* verifyBitcoinWIF: <<isVerified, extraData, err>>
verifyBitcoinWIF(wif) ==
    LET extraData ==
          IF Len(wif) = 51 /\ At(wif, 1) = "5"
          THEN ("format" :> "uncompressed") @@ ("network" :> "mainnet")
          ELSE IF Len(wif) = 52 /\ (At(wif, 1) = "K" \/ At(wif, 1) = "L")
          THEN ("format" :> "compressed") @@ ("network" :> "mainnet")
          ELSE EmptyMap
    IN  <<TRUE, extraData, <<>>>>

\* verifyEthPrivateKey: <<isVerified, extraData, err>>
verifyEthPrivateKey(hexKey) ==
    << TRUE,
       ("format" :> "ethereum_hex") @@ ("length" :> "256-bit")
         @@ ("compatible_chains" :>
               "Ethereum, BSC, Polygon, Arbitrum, Optimism, Avalanche, Fantom, etc."),
       <<>> >>

(***************************************************************************)
(* FromData, one loop iteration at a time.  Each operator below is the     *)
(* body of one family's loop: the results it appends for candidate c when  *)
(* the verifier's call meets o.                                            *)
(***************************************************************************)
\* bitcoinwifBody with the verifier called whatever verify is
bitcoinwifBodyAlwaysVerify(c, v, o) ==
    LET wif == TrimSpace(c) IN
    IF ~isValidWIF(wif) THEN <<>>
    ELSE LET s1 == [NewResult("BitcoinWIF", wif) EXCEPT
                      !.Redacted = SubSeq(wif, 1, 8) \o "..."
                                     \o SubSeq(wif, Len(wif) - 3, Len(wif))]
             vr == verifyBitcoinWIF(wif)
         IN  <<SetVerificationError(
                  [s1 EXCEPT !.Verified = vr[1], !.ExtraData = vr[2]], vr[3])>>

bitcoinwifBody(c, v, o) ==
    LET wif == TrimSpace(c) IN
    IF ~isValidWIF(wif) THEN <<>>
    ELSE LET s1 == [NewResult("BitcoinWIF", wif) EXCEPT
                      !.Redacted = SubSeq(wif, 1, 8) \o "..."
                                     \o SubSeq(wif, Len(wif) - 3, Len(wif))]
             vr == verifyBitcoinWIF(wif)
         IN  IF v THEN <<SetVerificationError(
                            [s1 EXCEPT !.Verified = vr[1], !.ExtraData = vr[2]], vr[3])>>
             ELSE <<s1>>

\* cozetokenBody with the result of a failed verification left out
cozetokenBodyDropFailed(c, v, o) ==
    LET token == TrimSpace(c)
        type == IF HasPrefix(token, "pat_") THEN ("Type" :> "Personal Access Token")
                ELSE IF HasPrefix(token, "sat_") THEN ("Type" :> "Service Access Token")
                ELSE EmptyMap
        s1 == [NewResult("CozeToken", token) EXCEPT !.ExtraData = type]
        vr == verifyCozeToken(o)
        s2 == SetVerificationError([s1 EXCEPT !.Verified = vr[1]], vr[3])
    IN  IF ~v THEN <<s1>>
        ELSE IF vr[3] # <<>> THEN <<>>
        ELSE IF vr[1] /\ vr[2] # <<>> THEN
            << [s2 EXCEPT
                  !.ExtraData = ("user_id" :> vr[2][1].user_id)
                                  @@ ("user_name" :> vr[2][1].user_name)
                                  @@ ("nick_name" :> vr[2][1].nick_name) @@ type,
                  !.AnalysisInfo = ("token" :> token)] >>
        ELSE <<s2>>

cozetokenBody(c, v, o) ==
    LET token == TrimSpace(c)
        type == IF HasPrefix(token, "pat_") THEN ("Type" :> "Personal Access Token")
                ELSE IF HasPrefix(token, "sat_") THEN ("Type" :> "Service Access Token")
                ELSE EmptyMap
        s1 == [NewResult("CozeToken", token) EXCEPT !.ExtraData = type]
        vr == verifyCozeToken(o)
        s2 == SetVerificationError([s1 EXCEPT !.Verified = vr[1]], vr[3])
    IN  IF ~v THEN <<s1>>
        ELSE IF vr[1] /\ vr[2] # <<>> THEN
            << [s2 EXCEPT
                  !.ExtraData = ("user_id" :> vr[2][1].user_id)
                                  @@ ("user_name" :> vr[2][1].user_name)
                                  @@ ("nick_name" :> vr[2][1].nick_name) @@ type,
                  !.AnalysisInfo = ("token" :> token)] >>
        ELSE <<s2>>

\* c is <<the ID match, the secret match>>
baidu2BodySkipSame(c, v, o) ==
    LET resIdMatch == TrimSpace(c[1])
        resMatch == TrimSpace(c[2])
        s1 == [NewResult("Baidu2", resIdMatch \o ":" \o resMatch) EXCEPT !.RawV2 = resMatch]
        vr == verifyBaidu(o)
    IN  IF resIdMatch = resMatch THEN <<>>
        ELSE IF v THEN <<SetVerificationError([s1 EXCEPT !.Verified = vr[1]], vr[2])>>
        ELSE <<s1>>

baidu2Body(c, v, o) ==
    LET resIdMatch == TrimSpace(c[1])
        resMatch == TrimSpace(c[2])
        s1 == [NewResult("Baidu2", resIdMatch \o ":" \o resMatch) EXCEPT !.RawV2 = resMatch]
        vr == verifyBaidu(o)
    IN  IF v THEN <<SetVerificationError([s1 EXCEPT !.Verified = vr[1]], vr[2])>>
        ELSE <<s1>>

\* ethereumprivatekeyBody without the validity filter
ethereumprivatekeyBodyUnfiltered(key, v, o) ==
    LET s1 == [NewResult("EthereumPrivateKey", key) EXCEPT
                 !.Redacted = SubSeq(key, 1, 10) \o "..."
                                \o SubSeq(key, Len(key) - 5, Len(key))]
        vr == verifyEthPrivateKey(key)
    IN  IF v THEN <<SetVerificationError(
                       [s1 EXCEPT !.Verified = vr[1], !.ExtraData = vr[2]], vr[3])>>
        ELSE <<s1>>

ethereumprivatekeyBody(key, v, o) ==
    IF ~isValidEthPrivateKey(key) THEN <<>>
    ELSE LET s1 == [NewResult("EthereumPrivateKey", key) EXCEPT
                      !.Redacted = SubSeq(key, 1, 10) \o "..."
                                     \o SubSeq(key, Len(key) - 5, Len(key))]
             vr == verifyEthPrivateKey(key)
         IN  IF v THEN <<SetVerificationError(
                            [s1 EXCEPT !.Verified = vr[1], !.ExtraData = vr[2]], vr[3])>>
             ELSE <<s1>>

LoopBody(f, c, v, o) ==
    CASE f = "bitcoinwif" -> bitcoinwifBody(c, v, o)
      [] f = "cozetoken" -> cozetokenBody(c, v, o)
      [] f = "baidu2" -> baidu2Body(c, v, o)
      [] f = "ethereumprivatekey" -> ethereumprivatekeyBody(c, v, o)

\* what the verifier's call can meet in this iteration; NoCall when the
\* iteration calls no service
CallsOf(f, c, v, cx) ==
    IF ~v THEN {NoCall}
    ELSE CASE f = "cozetoken" -> CozeCalls(cx)
           [] f = "baidu2" -> BaiduCalls
           [] OTHER -> {NoCall}

Subs(ms) == [i \in 1..Len(ms) |-> ms[i].sub]

\* the nested loops of baidu2: the secret matches outside, the ID matches inside
Pairs(matches, idMatches) ==
    [ k \in 1..(Len(matches) * Len(idMatches)) |->
        << idMatches[((k - 1) % Len(idMatches)) + 1],
           matches[((k - 1) \div Len(idMatches)) + 1] >> ]

\* Scanner.Keywords() of ethereumprivatekey
ethereumprivatekeyKeywords ==
    { "private_key", "privatekey", "private-key", "PRIVATE_KEY",
      "secret_key", "secretkey", "secret-key", "SECRET_KEY",
      "eth_private", "eth_secret", "ethereum_private", "ethereum_key",
      "wallet_key", "wallet_secret", "signing_key", "account_key",
      "account_secret", "priv_key", "privkey", "0x" }

\* foundKeys without the second pattern: keys with "0x" only
foundKeysPrefixOnly(dataStr) ==
    LET matchesWithPrefix == Subs(FindAllStringSubmatch("ethPrivKeyWithPrefix", dataStr))
    IN  { ToLower(matchesWithPrefix[i]) : i \in 1..Len(matchesWithPrefix) }

\* foundKeys without strings.ToLower: the keys as they stand in the buffer
foundKeysCaseSensitive(dataStr) ==
    LET matchesWithPrefix == Subs(FindAllStringSubmatch("ethPrivKeyWithPrefix", dataStr))
        matchesWithContext == Subs(FindAllStringSubmatch("ethPrivKeyWithContext", dataStr))
        normal(m) == IF ~HasPrefix(m, "0x") THEN "0x" \o m ELSE m
    IN  { matchesWithPrefix[i] : i \in 1..Len(matchesWithPrefix) }
        \cup { normal(matchesWithContext[i]) : i \in 1..Len(matchesWithContext) }

\* the keys of the map foundKeys
foundKeys(dataStr) ==
    LET matchesWithPrefix == Subs(FindAllStringSubmatch("ethPrivKeyWithPrefix", dataStr))
        matchesWithContext == Subs(FindAllStringSubmatch("ethPrivKeyWithContext", dataStr))
        normal(m) == LET key == ToLower(m) IN
                     IF ~HasPrefix(key, "0x") THEN "0x" \o key ELSE key
    IN  { ToLower(matchesWithPrefix[i]) : i \in 1..Len(matchesWithPrefix) }
        \cup { normal(matchesWithContext[i]) : i \in 1..Len(matchesWithContext) }

\* Orders with an iteration that may stop before the last key
OrdersPartial(S) ==
    { q \in UNION { [1..n -> S] : n \in { m \in {Cardinality(S) - 1, Cardinality(S)} : m >= 0 } } :
        \A i, j \in DOMAIN q : q[i] = q[j] => i = j }

\* the orders in which a range over a map with these keys can visit them
Orders(S) ==
    { q \in [1..Cardinality(S) -> S] : \A i, j \in 1..Cardinality(S) : q[i] = q[j] => i = j }

\* the sequences the loop of FromData can range over
Candidates(f, dataStr) ==
    CASE f = "bitcoinwif" -> {Subs(FindAllStringSubmatch("mainnetWIFPat", dataStr))}
      [] f = "cozetoken" -> {Subs(FindAllStringSubmatch("cozeKeyPat", dataStr))}
      [] f = "baidu2" ->
           {Pairs(Subs(FindAllStringSubmatch("baiduKeyPat", dataStr)),
                  Subs(FindAllStringSubmatch("baiduIdPat", dataStr)))}
      [] f = "ethereumprivatekey" -> Orders(foundKeys(dataStr))

(***************************************************************************)
(* The buffers FromData is called on: up to MaxPieces pieces in a row.     *)
(***************************************************************************)
MaxPieces == 2

cozePat == "pat_FzBqdi0lAvXGnM6GgS6hGbeV8JgQxSo6F8Obj5fcTG3Rde3dRC8rV7j4M4SieKQ2"
cozeSat == "sat_mO11PyjC5F82xSCchtx2hvlGn74Htf8z9HyO9Ig2ERlic2j2LXusPR1FhzibuhAG"
baiduAK == "f540f6ac0db3464680c5296a0db91757"
baiduSK == "4f77e0685ad8462b8e9888bd69ae1914"

WIFPieces ==
    { "private_key: " \o validUncompressedWIF \o "\n",
      "WIF=" \o validCompressedWIFL \o " ",
      "secretkey: " \o validCompressedWIFK \o "\n",
      "private_key: " \o testnetWIF \o "\n",
      "key_" \o validUncompressedWIF \o " ",
      "wif:" \o SubSeq(validUncompressedWIF, 1, 50) \o "0 " }

CozePieces ==
    { "API Token: " \o cozePat \o "\n",
      "COZE_TOKEN=" \o cozeSat \o "\n",
      "\"api_token\": \"" \o cozePat \o "\",",
      "Invalid token: pat_abc123\n",
      "Invalid token: tok_" \o SubSeq(cozePat, 5, 68) \o "\n",
      "token " \o cozeSat \o "Zz " }

BaiduPieces ==
    { "ak=" \o baiduAK \o "\n",
      "secret_key: '" \o baiduSK \o "';\n",
      "AccessKey " \o baiduAK \o "0a1b2c3d ",
      "ACCESS_KEY=F540F6AC0DB3464680C5296A0DB91757\n",
      "list zone failed " }

EthPieces ==
    { "private_key: 0x" \o validKeyNoPrefix \o "\n",
      "secret_key: \"" \o validKeyNoPrefix \o "\"\n",
      "PRIVATE_KEY=0X4C0883A69102937D6231471B5DBB6204FE512961708279F1D7B1B3B9E1A1E3D4 ",
      "some random text " \o validKeyNoPrefix \o " more text ",
      "eth-private = '" \o validKey2NoPrefix \o "';",
      "private_key: 0x" \o Repeat("0", 64) \o "\n" }

\* one key after one context, up to the end of the buffer
EthContexts ==
    { "", "some random text ", "private_key:", "private_key: ", "secret_key=",
      "secret_key: \"", "PrivateKey = '", "eth_private: ", "wallet-key\t",
      "account_secret:=", "signing_key", "privkey\"", "key: ", "private_key_" }

EthKeyTexts ==
    { validKeyNoPrefix, validKey2NoPrefix, OrderMinusOneHex,
      "4C0883A69102937D6231471B5DBB6204FE512961708279F1D7B1B3B9E1A1E3D4",
      Repeat("0", 64), Repeat("f", 64), Repeat("ab", 32), OrderHex,
      Repeat("0123456789abcdef", 4) }

EthSingles ==
    { c \o k \o t : c \in EthContexts, k \in EthKeyTexts, t \in {"", "\"", "\" ", "\"x", "0"} }

RECURSIVE Concats(_, _)
Concats(P, n) ==
    IF n = 0 THEN {""} ELSE {""} \cup { p \o b : p \in P, b \in Concats(P, n - 1) }

Families == {"bitcoinwif", "cozetoken", "baidu2", "ethereumprivatekey"}

Buffers(f) ==
    CASE f = "bitcoinwif" -> Concats(WIFPieces, MaxPieces)
      [] f = "cozetoken" -> Concats(CozePieces, MaxPieces)
      [] f = "baidu2" -> Concats(BaiduPieces, MaxPieces)
      [] f = "ethereumprivatekey" -> Concats(EthPieces, MaxPieces) \cup EthSingles

(***************************************************************************)
(* Scanner.FromData(ctx, verify, data)                                     *)
(***************************************************************************)
Init ==
    /\ op = "FromData"
    /\ family \in Families
    /\ arg \in Buffers(family)
    /\ verify \in BOOLEAN
    /\ ctx \in {"nil", "live", "cancelled"}
    /\ ret = <<>>
    /\ pc = "match"
    /\ cands = <<>>
    /\ idx = 0
    /\ results = <<>>
    /\ last = NoCall
    /\ calls = 0

\* the pattern matching before the loop
FindMatches ==
    /\ pc = "match"
    /\ cands' \in Candidates(family, arg)
    /\ pc' = "loop"
    /\ UNCHANGED <<op, arg, ret, family, verify, ctx, idx, results, last, calls>>

\* one iteration of the loop over the candidates
Iterate ==
    /\ pc = "loop"
    /\ idx < Len(cands)
    /\ \E o \in CallsOf(family, cands[idx + 1], verify, ctx) :
          /\ results' = results \o LoopBody(family, cands[idx + 1], verify, o)
          /\ last' = o
          /\ calls' = IF o.kind \in {"transport", "response"} THEN calls + 1 ELSE calls
    /\ idx' = idx + 1
    /\ UNCHANGED <<op, arg, ret, family, verify, ctx, pc, cands>>

\* return results, nil
Return ==
    /\ pc = "loop"
    /\ idx = Len(cands)
    /\ pc' = "done"
    /\ ret' = <<"nil">>
    /\ UNCHANGED <<op, arg, family, verify, ctx, cands, idx, results, last, calls>>

\* the caller cancels the context while FromData runs
Cancel ==
    /\ pc \in {"match", "loop"}
    /\ ctx = "live"
    /\ ctx' = "cancelled"
    /\ UNCHANGED <<op, arg, ret, family, verify, pc, cands, idx, results, last, calls>>

Next == FindMatches \/ Iterate \/ Return \/ Cancel

Spec == Init /\ [][Next]_vars

(***************************************************************************)
(* Several FromData invocations on one Scanner value, interleaved at the   *)
(* steps of the function.  matches, foundKeys, results and the loop        *)
(* position are locals of an invocation: arg, pc, cands, idx, results and  *)
(* ret hold one value per invocation.  The patterns, secp256k1N and the    *)
(* client are shared and only read.                                        *)
(***************************************************************************)
MaxInvocations == 2

Invocations == 1..MaxInvocations

ConcurrentBuffers(f) ==
    CASE f = "bitcoinwif" ->
           { "", "private_key: " \o validUncompressedWIF \o "\n",
             "WIF=" \o validCompressedWIFL \o " " }
      [] f = "cozetoken" ->
           { "", "API Token: " \o cozePat \o "\n", "COZE_TOKEN=" \o cozeSat \o "\n" }
      [] f = "baidu2" ->
           { "", "ak=" \o baiduAK \o "\n", "secret_key: '" \o baiduSK \o "';\n" }
      [] f = "ethereumprivatekey" ->
           { "private_key: 0x" \o validKeyNoPrefix \o "\n",
             "secret_key: \"" \o validKeyNoPrefix \o "\"\n"
                \o "eth-private = '" \o validKey2NoPrefix \o "';",
             "eth-private = '" \o validKey2NoPrefix \o "';"
                \o "private_key: 0x" \o Repeat("0", 64) \o "\n" }

\* invocationCandidates with one foundKeys map for all invocations
invocationCandidatesShared(p, data, f) ==
    IF f = "ethereumprivatekey"
    THEN Orders(UNION { foundKeys(data[q]) : q \in DOMAIN data })
    ELSE Candidates(f, data[p])

\* the candidates of invocation p: matched in its own data, kept in its own
\* matches slice or foundKeys map
invocationCandidates(p, data, f) == Candidates(f, data[p])

InitConcurrent ==
    /\ op = "FromDataConcurrent"
    /\ family \in Families
    /\ arg \in [Invocations -> ConcurrentBuffers(family)]
    /\ verify \in BOOLEAN
    /\ ctx = "live"
    /\ ret = [p \in Invocations |-> <<>>]
    /\ pc = [p \in Invocations |-> "match"]
    /\ cands = [p \in Invocations |-> <<>>]
    /\ idx = [p \in Invocations |-> 0]
    /\ results = [p \in Invocations |-> <<>>]
    /\ last = NoCall
    /\ calls = 0

ConcurrentFindMatches(p) ==
    /\ pc[p] = "match"
    /\ \E c \in invocationCandidates(p, arg, family) :
          cands' = [cands EXCEPT ![p] = c]
    /\ pc' = [pc EXCEPT ![p] = "loop"]
    /\ UNCHANGED <<op, arg, ret, family, verify, ctx, idx, results, last, calls>>

ConcurrentIterate(p) ==
    /\ pc[p] = "loop"
    /\ idx[p] < Len(cands[p])
    /\ \E o \in CallsOf(family, cands[p][idx[p] + 1], verify, ctx) :
          /\ results' = [results EXCEPT
                           ![p] = @ \o LoopBody(family, cands[p][idx[p] + 1], verify, o)]
          /\ last' = o
          /\ calls' = IF o.kind \in {"transport", "response"} THEN calls + 1 ELSE calls
    /\ idx' = [idx EXCEPT ![p] = @ + 1]
    /\ UNCHANGED <<op, arg, ret, family, verify, ctx, pc, cands>>

ConcurrentReturn(p) ==
    /\ pc[p] = "loop"
    /\ idx[p] = Len(cands[p])
    /\ pc' = [pc EXCEPT ![p] = "done"]
    /\ ret' = [ret EXCEPT ![p] = <<"nil">>]
    /\ UNCHANGED <<op, arg, family, verify, ctx, cands, idx, results, last, calls>>

NextConcurrent ==
    \E p \in Invocations :
        ConcurrentFindMatches(p) \/ ConcurrentIterate(p) \/ ConcurrentReturn(p)

SpecConcurrent == InitConcurrent /\ [][NextConcurrent]_vars


(***************************************************************************)
(* C1: isValidEthPrivateKey(k) is true exactly when k, lower-cased and     *)
(* without an optional leading "0x", is 64 hexadecimal digits that are not *)
(* a repetition of a period of 1, 2, 4 or 8 characters, not a denylisted   *)
(* sample key, and whose value N satisfies 0 < N < group order.  The       *)
(* order minus one is accepted; the order and larger values are rejected.  *)
(***************************************************************************)
HexRank(c) == IndexIn(c, "0123456789abcdef")

\* a < b as unsigned integers, for two strings of 64 lower-case hex digits
HexLess(a, b) ==
    \E i \in 1..64 :
        /\ SubSeq(a, 1, i - 1) = SubSeq(b, 1, i - 1)
        /\ HexRank(At(a, i)) < HexRank(At(b, i))

HasPeriod(r, p) == \A i \in 1..(Len(r) - p) : At(r, i) = At(r, i + p)

DenylistedKeys ==
    { Repeat("0123456789abcdef", 4), Repeat("1", 64), Repeat("a", 64),
      Repeat("deadbeef", 8) }

EthKeyAcceptable(k) ==
    LET r == TrimPrefix(ToLower(k), "0x") IN
    /\ Len(r) = 64
    /\ \A i \in 1..Len(r) : At(r, i) \in LowerHexChars
    /\ \A p \in {1, 2, 4, 8} : ~HasPeriod(r, p)
    /\ r \notin DenylistedKeys
    /\ HexLess(Repeat("0", 64), r)
    /\ HexLess(r, OrderHex)

C1_EthKeyValidity ==
    (op = "isValidEthPrivateKey" /\ pc = "done") =>
        /\ ret[1] = EthKeyAcceptable(arg)
        /\ (TrimPrefix(ToLower(arg), "0x") = OrderMinusOneHex => ret[1] = TRUE)
        /\ (TrimPrefix(ToLower(arg), "0x") \in {OrderHex, OrderPlusOneHex} => ret[1] = FALSE)

C1_Witness ==
    /\ op = "isValidEthPrivateKey"
    /\ pc = "done"
    /\ arg = "0x" \o OrderMinusOneHex
    /\ ret = <<TRUE>>

(***************************************************************************)
(* C2: isValidWIF(w) is true exactly when w has 51 characters and starts   *)
(* with '5', or has 52 characters and starts with 'K' or 'L'; a testnet    *)
(* key, a truncated key, a 51-character string starting with '1' or 'K'    *)
(* and a 52-character string starting with '5' are rejected.               *)
(***************************************************************************)
WIFRejectedExamples ==
    { testnetWIF, "5HueCGU8rMjx",
      "1HueCGU8rMjxEXxiPuD5BDku4MkFqeZyd4dZ1jvhTVqvbTLvyTJ",
      "5" \o SubSeq(WIFFiller, 1, 51), "K" \o SubSeq(WIFFiller, 1, 50) }

C2_WIFValidity ==
    (op = "isValidWIF" /\ pc = "done") =>
        /\ ret[1] = TRUE <=>
              \/ Len(arg) = 51 /\ SubSeq(arg, 1, 1) = "5"
              \/ Len(arg) = 52 /\ SubSeq(arg, 1, 1) \in {"K", "L"}
        /\ (arg \in WIFRejectedExamples => ret[1] = FALSE)

C2_Witness ==
    /\ op = "isValidWIF"
    /\ pc = "done"
    /\ arg = "K" \o SubSeq(WIFFiller, 1, 50)
    /\ ret = <<FALSE>>

(***************************************************************************)
(* The result of the last loop iteration of a family whose every           *)
(* iteration appends one result (cozetoken, baidu2).                       *)
(***************************************************************************)
Verifying(f) ==
    /\ op = "FromData"
    /\ family = f
    /\ verify
    /\ idx >= 1
    /\ Len(results) = idx

LastResult == results[Len(results)]

(***************************************************************************)
(* C3: for the families whose verifier calls a service (Coze, Baidu), a    *)
(* call that fails at transport level leaves the candidate's result with   *)
(* Verified = false and a verification error carrying the cause.           *)
(***************************************************************************)
C3_TransportFailureIsError ==
    ((Verifying("cozetoken") \/ Verifying("baidu2")) /\ last.kind = "transport") =>
        /\ LastResult.Verified = FALSE
        /\ LastResult.VerificationError = <<last.err>>

(***************************************************************************)
(* C4: with verify, a Coze result is Verified exactly when the response    *)
(* has status 200 and decodes with code 0 and a non-empty user id; exactly *)
(* then ExtraData carries user_id, user_name and nick_name of the response.*)
(***************************************************************************)
CozeSuccess(o) ==
    /\ o.kind = "response"
    /\ o.status = 200
    /\ o.decodes
    /\ o.code = 0
    /\ o.user_id # ""

C4_CozeVerifiedIff ==
    Verifying("cozetoken") =>
        /\ LastResult.Verified <=> CozeSuccess(last)
        /\ CozeSuccess(last) =>
              /\ {"user_id", "user_name", "nick_name"} \subseteq DOMAIN LastResult.ExtraData
              /\ LastResult.ExtraData["user_id"] = last.user_id
              /\ LastResult.ExtraData["user_name"] = last.user_name
              /\ LastResult.ExtraData["nick_name"] = last.nick_name
        /\ ~CozeSuccess(last) =>
              {"user_id", "user_name", "nick_name"} \cap DOMAIN LastResult.ExtraData = {}

C4_Witness ==
    /\ Verifying("cozetoken")
    /\ CozeSuccess(last)
    /\ LastResult.Verified
    /\ LastResult.ExtraData["user_id"] = "7301"

C4_WitnessRejected ==
    /\ Verifying("cozetoken")
    /\ last.kind = "response" /\ last.status = 200 /\ last.decodes
    /\ last.code = 0 /\ last.user_id = ""
    /\ ~LastResult.Verified

(***************************************************************************)
(* C5: in the Coze verifier a response status other than 200, 401 and 403  *)
(* yields Verified = false with a verification error.                      *)
(***************************************************************************)
C5_CozeUnexpectedStatusIsError ==
    (Verifying("cozetoken") /\ last.kind = "response" /\ last.status \notin {200, 401, 403}) =>
        /\ LastResult.Verified = FALSE
        /\ LastResult.VerificationError # <<>>

C5_Witness ==
    /\ Verifying("cozetoken")
    /\ last.kind = "response"
    /\ last.status = 500
    /\ LastResult.VerificationError # <<>>

(***************************************************************************)
(* C6: an explicit rejection by the provider (HTTP 401 or 403 for a Coze   *)
(* token, a ListZone error containing "IamSignatureInvalid" for a Baidu    *)
(* pair) yields Verified = false and no verification error.                *)
(***************************************************************************)
Rejected ==
    \/ /\ Verifying("cozetoken")
       /\ last.kind = "response"
       /\ last.status \in {401, 403}
    \/ /\ Verifying("baidu2")
       /\ last.kind = "response"
       /\ \E i \in 1..(Len(last.err) - 18) : SubSeq(last.err, i, i + 18) = "IamSignatureInvalid"

C6_RejectionIsNotVerified ==
    Rejected =>
        /\ LastResult.Verified = FALSE
        /\ LastResult.VerificationError = <<>>

C6_Witness ==
    /\ Verifying("baidu2")
    /\ Rejected
    /\ ~LastResult.Verified

(***************************************************************************)
(* C7: Ethereum FromData returns nothing for a buffer with a 64-hex-digit  *)
(* string but neither a "0x" nor a key-name token; for a key-name token, a *)
(* separator, an optional quote and the 64 digits it returns one result,   *)
(* Raw being "0x" and the digits in lower case.  As stated, for every      *)
(* string of 64 hex digits: C7_AsStated.  For the strings that pass the    *)
(* validity filter, and no result for the others: C7_ContextGate.          *)
(***************************************************************************)
KeyNameWords ==
    { EthKeyNames[a][1] \o j \o EthKeyNames[a][2] :
        a \in 1..Len(EthKeyNames), j \in {"", "_", "-"} }

NoKeyName(s) == LET a == ToLower(s) IN \A w \in KeyNameWords : ~Contains(a, w)

Has64Hex(s) == \E i \in 1..Len(s) : AllIn(s, i, 64, HexChars)

KeyNameContexts ==
    { "private_key:", "private_key: ", "secret_key=", "secret_key: \"",
      "PrivateKey = '", "eth_private: ", "wallet-key\t", "account_secret:=" }

KeyEndings == {"", "\"", "\" ", "\"x"}

EthDone == op = "FromData" /\ family = "ethereumprivatekey" /\ pc = "done"

BareKeyIgnored ==
    (~Contains(ToLower(arg), "0x") /\ Has64Hex(arg) /\ NoKeyName(arg)) => results = <<>>

C7_AsStated ==
    EthDone =>
        /\ BareKeyIgnored
        /\ \A c \in KeyNameContexts, k \in EthKeyTexts, t \in KeyEndings :
              arg = c \o k \o t =>
                  /\ Len(results) = 1
                  /\ results[1].Raw = "0x" \o ToLower(k)

C7_ContextGate ==
    EthDone =>
        /\ BareKeyIgnored
        /\ \A c \in KeyNameContexts, k \in EthKeyTexts, t \in KeyEndings :
              arg = c \o k \o t =>
                  IF EthKeyAcceptable(k)
                  THEN Len(results) = 1 /\ results[1].Raw = "0x" \o ToLower(k)
                  ELSE results = <<>>

C7_Witness ==
    /\ EthDone
    /\ arg = "secret_key: \"" \o validKeyNoPrefix \o "\""
    /\ Len(results) = 1
    /\ results[1].Raw = "0x" \o validKeyNoPrefix

C7_WitnessBare ==
    /\ EthDone
    /\ arg = "some random text " \o validKeyNoPrefix \o " more text "
    /\ results = <<>>

(***************************************************************************)
(* C8: a valid key that occurs in the buffer any number of times, with     *)
(* "0x" or bare behind a key-name token, in any letter case, yields        *)
(* exactly one result, whose Raw is the lower-case form with "0x".         *)
(***************************************************************************)
ValidKeys == {validKeyNoPrefix, validKey2NoPrefix, OrderMinusOneHex}

KeyDelimiters == {" ", "\n", "\"", "'", ";"}

\* the key k, in any case, stands in s with "0x" or behind a key-name context
OccursAsKey(k, s) ==
    LET a == ToLower(s) \o " " IN
    \E i \in 1..(Len(a) - 64) :
        /\ SubSeq(a, i, i + 63) = k
        /\ SubSeq(a, i + 64, i + 64) \in KeyDelimiters
        /\ \E c \in KeyNameContexts \cup {"0x", "eth-private = '"} :
              /\ i > Len(c)
              /\ SubSeq(a, i - Len(c), i - 1) = ToLower(c)

C8_OneResultPerKey ==
    EthDone =>
        /\ \A k \in ValidKeys :
              OccursAsKey(k, arg) =>
                  Cardinality({i \in 1..Len(results) : results[i].Raw = "0x" \o k}) = 1
        /\ \A i \in 1..Len(results) :
              /\ results[i].Raw = ToLower(results[i].Raw)
              /\ SubSeq(results[i].Raw, 1, 2) = "0x"

C8_Witness ==
    /\ EthDone
    /\ arg = "PRIVATE_KEY=0X4C0883A69102937D6231471B5DBB6204FE512961708279F1D7B1B3B9E1A1E3D4 "
               \o "secret_key: \"" \o validKeyNoPrefix \o "\"\n"
    /\ Len(results) = 1
    /\ results[1].Raw = "0x" \o validKeyNoPrefix

(***************************************************************************)
(* C9: the results of one FromData invocation hold no two results for the  *)
(* same secret, for every family.                                          *)
(***************************************************************************)
C9_NoDuplicateResults ==
    (op = "FromData" /\ pc = "done") =>
        \A i, j \in 1..Len(results) : results[i].Raw = results[j].Raw => i = j

(***************************************************************************)
(* C10: Baidu FromData returns one result for every pair of an ID match    *)
(* and a secret match: m * n results for m ID matches and n secret         *)
(* matches, Raw being id ":" secret and RawV2 the secret, the pair of a    *)
(* token with itself included.                                             *)
(***************************************************************************)
BaiduDone == op = "FromData" /\ family = "baidu2" /\ pc = "done"

C10_BaiduCrossProduct ==
    BaiduDone =>
        LET ids == FindAllStringSubmatch("baiduIdPat", arg)
            secrets == FindAllStringSubmatch("baiduKeyPat", arg)
            raw(i, j) == ids[i].sub \o ":" \o secrets[j].sub
        IN  /\ Len(results) = Len(ids) * Len(secrets)
            /\ \A i \in 1..Len(ids), j \in 1..Len(secrets) :
                  Cardinality({ k \in 1..Len(results) :
                                  /\ results[k].Raw = raw(i, j)
                                  /\ results[k].RawV2 = secrets[j].sub })
                  = Cardinality({ p \in (1..Len(ids)) \X (1..Len(secrets)) :
                                    raw(p[1], p[2]) = raw(i, j) })

C10_Witness ==
    /\ BaiduDone
    /\ arg = "ak=" \o baiduAK \o "\n" \o "secret_key: '" \o baiduSK \o "';\n"
    /\ Len(results) = 4
    /\ \E k \in 1..4 : results[k].Raw = baiduAK \o ":" \o baiduAK

(***************************************************************************)
(* C11: FromData returns a nil error on every input, a buffer with no      *)
(* match returns no result, and with verify the results hold the same Raw  *)
(* values, each as many times, as the run without verify on the same       *)
(* candidates, whatever each verification met.                             *)
(***************************************************************************)
\* the results of the loop over cs without verify
RECURSIVE Unverified(_, _, _)
Unverified(f, cs, i) ==
    IF i > Len(cs) THEN <<>>
    ELSE LoopBody(f, cs[i], FALSE, NoCall) \o Unverified(f, cs, i + 1)

RawsOf(rs) == { rs[i].Raw : i \in 1..Len(rs) }

RawCount(rs, raw) == Cardinality({ i \in 1..Len(rs) : rs[i].Raw = raw })

FromDataDone == op = "FromData" /\ pc = "done"

C11_SiblingsSurvive ==
    FromDataDone =>
        /\ ret = <<"nil">>
        /\ cands = <<>> => results = <<>>
        /\ LET alone == Unverified(family, cands, 1) IN
            /\ Len(results) = Len(alone)
            /\ \A raw \in RawsOf(results) \cup RawsOf(alone) :
                  RawCount(results, raw) = RawCount(alone, raw)

C11_Witness ==
    /\ FromDataDone
    /\ family = "cozetoken"
    /\ verify
    /\ Len(results) = 2
    /\ results[1].VerificationError # <<>>
    /\ results[2].Verified

(***************************************************************************)
(* C12: without verify no verifier is called and no network request is     *)
(* made, and every result keeps the initial verdict: Verified = false and  *)
(* no verification error.                                                  *)
(***************************************************************************)
C12_UnverifiedIsUntouched ==
    (op = "FromData" /\ ~verify) =>
        /\ calls = 0
        /\ last = NoCall
        /\ \A i \in 1..Len(results) :
              /\ results[i].Verified = FALSE
              /\ results[i].VerificationError = <<>>

C12_Witness ==
    /\ FromDataDone
    /\ ~verify
    /\ family = "bitcoinwif"
    /\ Len(results) = 2
    /\ ~results[1].Verified /\ ~results[2].Verified

(***************************************************************************)
(* C13: every result of every family carries a redacted form: a prefix of  *)
(* the secret of fixed width, "...", and a suffix of fixed width (Bitcoin   *)
(* WIF 8 and 4 characters, Ethereum 10 and 6), the middle left out.        *)
(***************************************************************************)
RedactedAs(r, p, q) ==
    /\ p + q < Len(r.Raw)
    /\ r.Redacted = SubSeq(r.Raw, 1, p) \o "..." \o SubSeq(r.Raw, Len(r.Raw) - q + 1, Len(r.Raw))

RedactedForm(f, r) ==
    CASE f = "bitcoinwif" -> RedactedAs(r, 8, 4)
      [] f = "ethereumprivatekey" -> RedactedAs(r, 10, 6)
      [] OTHER -> \E p, q \in 1..16 : RedactedAs(r, p, q)

C13_EveryResultRedacted ==
    op = "FromData" => \A i \in 1..Len(results) : RedactedForm(family, results[i])

(***************************************************************************)
(* C14: the results follow the order in which the secrets are found in the *)
(* buffer (Bitcoin WIF, Coze, Ethereum): of two results for different      *)
(* secrets, the one whose secret first occurs earlier in the buffer has    *)
(* its first result earlier in the list.                                   *)
(***************************************************************************)
\* the secret as it stands in the lower-cased buffer
SecretText(f, raw) ==
    IF f = "ethereumprivatekey" THEN SubSeq(raw, 3, Len(raw)) ELSE ToLower(raw)

FirstOccurrence(s, sub) ==
    Min({ i \in 1..(Len(s) - Len(sub) + 1) : SubSeq(s, i, i + Len(sub) - 1) = sub })

FirstResult(rs, raw) == Min({ i \in 1..Len(rs) : rs[i].Raw = raw })

C14_DiscoveryOrder ==
    (FromDataDone /\ family \in {"bitcoinwif", "cozetoken", "ethereumprivatekey"}) =>
        LET a == ToLower(arg) IN
        \A x, y \in RawsOf(results) :
            FirstOccurrence(a, SecretText(family, x)) < FirstOccurrence(a, SecretText(family, y))
                => FirstResult(results, x) < FirstResult(results, y)

(***************************************************************************)
(* C15: the Raw of every Bitcoin WIF result satisfies isValidWIF and the   *)
(* Raw of every Ethereum result satisfies isValidEthPrivateKey; a          *)
(* candidate that fails its family's filter is in no result, with verify   *)
(* true or false.                                                          *)
(***************************************************************************)
PassesFilter(f, raw) ==
    CASE f = "bitcoinwif" -> isValidWIF(raw)
      [] f = "ethereumprivatekey" -> isValidEthPrivateKey(raw)
      [] OTHER -> TRUE

C15_OnlyValidatedEmitted ==
    (op = "FromData" /\ family \in {"bitcoinwif", "ethereumprivatekey"}) =>
        /\ \A i \in 1..Len(results) : PassesFilter(family, results[i].Raw)
        /\ \A k \in 1..idx :
              ~PassesFilter(family, TrimSpace(cands[k])) => cands[k] \notin RawsOf(results)

C15_Witness ==
    /\ EthDone
    /\ verify
    /\ Len(cands) = 2
    /\ "0x" \o Repeat("0", 64) \in { cands[k] : k \in 1..2 }
    /\ Len(results) = 1
    /\ results[1].Raw = "0x" \o validKeyNoPrefix

(***************************************************************************)
(* C16: for the families that verify over the network (Coze, Baidu) the    *)
(* call is bound to FromData's context: an iteration that runs with verify *)
(* under a cancelled context leaves its result with Verified = false and a *)
(* verification error.                                                     *)
(***************************************************************************)
C16_CancelledCallIsError ==
    [][ ( /\ op = "FromData"
          /\ family \in {"cozetoken", "baidu2"}
          /\ verify
          /\ pc = "loop"
          /\ ctx = "cancelled"
          /\ idx' = idx + 1 )
        => ( /\ Len(results') = Len(results) + 1
             /\ results'[Len(results')].Verified = FALSE
             /\ results'[Len(results')].VerificationError # <<>> ) ]_vars

(***************************************************************************)
(* C17: the keywords of the Ethereum detector cover the contexts of its    *)
(* context pattern: every buffer in which ethPrivKeyWithContext finds a    *)
(* key holds at least one string of Keywords(), letter case ignored.       *)
(***************************************************************************)
C17_KeywordsCoverContexts ==
    (EthDone /\ FindAllStringSubmatch("ethPrivKeyWithContext", arg) # <<>>) =>
        LET a == ToLower(arg) IN
        \E kw \in ethereumprivatekeyKeywords : Contains(a, ToLower(kw))

(***************************************************************************)
(* C18: FromData invocations that run concurrently on one Scanner value    *)
(* share no mutable state: under every interleaving each invocation works  *)
(* on the candidates of its own buffer and returns the Raw values it        *)
(* returns when it runs alone on that buffer.                              *)
(***************************************************************************)
\* the Raw values FromData returns for data when it runs alone
AloneRaws(f, data) ==
    LET c == CHOOSE c \in Candidates(f, data) : TRUE IN RawsOf(Unverified(f, c, 1))

\* both, for every buffer of the concurrent invocations
CandidatesAlone ==
    [f \in Families |-> [d \in ConcurrentBuffers(f) |-> Candidates(f, d)]]

RawsAlone ==
    [f \in Families |-> [d \in ConcurrentBuffers(f) |-> AloneRaws(f, d)]]

C18_InvocationsIndependent ==
    op = "FromDataConcurrent" =>
        \A p \in Invocations :
            /\ pc[p] # "match" => cands[p] \in CandidatesAlone[family][arg[p]]
            /\ pc[p] = "done" =>
                  /\ ret[p] = <<"nil">>
                  /\ RawsOf(results[p]) = RawsAlone[family][arg[p]]

C18_Witness ==
    /\ op = "FromDataConcurrent"
    /\ family = "ethereumprivatekey"
    /\ pc = [p \in Invocations |-> "done"]
    /\ arg[1] # arg[2]
    /\ Len(results[1]) = 1 /\ Len(results[2]) = 2
    /\ results[1][1].Raw \in RawsOf(results[2])

(***************************************************************************)
(* C19: with verify, the verifier makes exactly one network round trip for *)
(* each validated candidate, in every family: as many calls as results,    *)
(* at every point of the loop.                                             *)
(***************************************************************************)
C19_OneRoundTripPerCandidate ==
    (op = "FromData" /\ verify) => calls = Len(results)

(***************************************************************************)
(* C20: extraction, filtering and deduplication run twice on one buffer    *)
(* give the same set of Raw values: every run of FromData without verify   *)
(* on the buffer returns the set this run returned, however often a secret *)
(* occurs in the buffer.                                                   *)
(***************************************************************************)
\* the sets of Raw values the runs of FromData without verify can return
RawSetsOfRuns ==
    [f \in Families |->
        [d \in Buffers(f) |-> { RawsOf(Unverified(f, c, 1)) : c \in Candidates(f, d) }]]

HasEntry(m, k, v) == k \in DOMAIN m /\ m[k] = v

OfflineExtraData(f, r) ==
    CASE f = "bitcoinwif" ->
           /\ Len(r.Raw) \in {51, 52}
           /\ HasEntry(r.ExtraData, "format",
                       IF Len(r.Raw) = 51 THEN "uncompressed" ELSE "compressed")
           /\ HasEntry(r.ExtraData, "network", "mainnet")
      [] f = "ethereumprivatekey" -> HasEntry(r.ExtraData, "format", "ethereum_hex")

C22_VerifiedHasNoError ==
    op = "FromData" =>
        \A i \in 1..Len(results) :
            results[i].VerificationError # <<>> => results[i].Verified = FALSE

C22_Witness ==
    /\ Verifying("cozetoken")
    /\ Len(results) = 2
    /\ results[1].Verified /\ results[1].VerificationError = <<>>
    /\ last.kind = "transport"
    /\ results[2].VerificationError = <<last.err>> /\ ~results[2].Verified

=============================================================================
